---- MODULE Spec2Model ----
(***************************************************************************)
(* Connection-string parsing, validation and masking of chartdb            *)
(* (src/lib/connection-string/connection-string-parser.ts and the server   *)
(* side copy in server/index.js).                                          *)
(*                                                                         *)
(* A JavaScript string is a sequence of one-character strings.  A regular  *)
(* expression is a tree of records, matched by a backtracking matcher that *)
(* explores alternatives in the priority order of ECMAScript: alternatives *)
(* left to right, a greedy quantifier longest first, a lazy one shortest   *)
(* first, an optional group taken before it is skipped.                    *)
(***************************************************************************)
EXTENDS Integers, Sequences, FiniteSets, TLC

\* the calls of the library functions
VARIABLES text, op, parsed, validation, masked, remasked, detected, redetected

\* the ConnectionInstructions component: its state, the requests it sent to
\* the extraction endpoint, the connection string whose schema it handed to
\* onSchemaExtracted last, the number of the request whose outcome it applied
\* last, and the number of changes made to the field
VARIABLES localConnectionString, showPassword, validationError,
          connectionInfo, generatedScript, isConnecting, extractionStatus,
          requests, delivered, applied, edits

\* the extraction server: the arguments its dispatcher was called with and
\* the database connections it opened
VARIABLES dispatched, dbConnections

callVars == <<text, op, parsed, validation, masked, remasked, detected, redetected>>
uiVars == <<localConnectionString, showPassword, validationError,
            connectionInfo, generatedScript, isConnecting, extractionStatus,
            requests, delivered, applied, edits>>
serverVars == <<dispatched, dbConnections>>
vars == <<callVars, uiVars, serverVars>>

----------------------------------------------------------------------------
(* Characters and strings                                                  *)

UpperLetters == <<"A","B","C","D","E","F","G","H","I","J","K","L","M",
                  "N","O","P","Q","R","S","T","U","V","W","X","Y","Z">>
LowerLetters == <<"a","b","c","d","e","f","g","h","i","j","k","l","m",
                  "n","o","p","q","r","s","t","u","v","w","x","y","z">>

\* String.prototype.toLowerCase on one character
LowerMap ==
    [c \in {UpperLetters[n] : n \in 1..Len(UpperLetters)} |->
        LowerLetters[CHOOSE n \in 1..Len(UpperLetters) : UpperLetters[n] = c]]
LowerChar(c) == IF c \in DOMAIN LowerMap THEN LowerMap[c] ELSE c

\* String.prototype.toLowerCase
ToLowerCase(s) == [n \in 1..Len(s) |-> LowerChar(s[n])]

\* String.prototype.toUpperCase
UpperMap ==
    [c \in {LowerLetters[n] : n \in 1..Len(LowerLetters)} |->
        UpperLetters[CHOOSE n \in 1..Len(LowerLetters) : LowerLetters[n] = c]]
UpperChar(c) == IF c \in DOMAIN UpperMap THEN UpperMap[c] ELSE c
ToUpperCase(s) == [n \in 1..Len(s) |-> UpperChar(s[n])]

Digits == <<"0","1","2","3","4","5","6","7","8","9">>
DigitSet == {Digits[n] : n \in 1..Len(Digits)}
DigitVal(c) == (CHOOSE n \in 1..Len(Digits) : Digits[n] = c) - 1

WhiteSpace == {" ", "\t", "\n", "\r"}
LineTerminators == {"\n", "\r"}

\* s.startsWith(p, i - 1), positions counted from 1
StartsWithAt(s, p, i) ==
    /\ i + Len(p) - 1 <= Len(s)
    /\ \A n \in 1..Len(p) : s[i + n - 1] = p[n]

\* s.includes(p)
Includes(s, p) == \E i \in 1..(Len(s) + 1) : StartsWithAt(s, p, i)

RECURSIVE TrimStart(_)
TrimStart(s) ==
    IF s # <<>> /\ Head(s) \in WhiteSpace THEN TrimStart(Tail(s)) ELSE s

RECURSIVE TrimEnd(_)
TrimEnd(s) ==
    IF s # <<>> /\ s[Len(s)] \in WhiteSpace
    THEN TrimEnd(SubSeq(s, 1, Len(s) - 1)) ELSE s

\* String.prototype.trim
Trim(s) == TrimEnd(TrimStart(s))

\* the JavaScript value NaN, kept apart from every port number
NaN == 0 - 1

\* parseInt(s, 10) for a string without sign: leading blanks are skipped, the
\* value is that of the longest prefix of decimal digits, NaN when it is empty
RECURSIVE ParseIntFrom(_, _, _)
ParseIntFrom(s, i, acc) ==
    IF i <= Len(s) /\ s[i] \in DigitSet
    THEN ParseIntFrom(s, i + 1, acc * 10 + DigitVal(s[i]))
    ELSE acc
ParseInt(s) ==
    LET d == TrimStart(s)
    IN  IF d # <<>> /\ d[1] \in DigitSet THEN ParseIntFrom(d, 1, 0) ELSE NaN

\* a value that is a string or undefined
Undefined == [def |-> FALSE, v |-> <<>>]
Str(s) == [def |-> TRUE, v |-> s]
\* x || undefined, for x a string or undefined
OrUndefined(x) == IF x.def /\ x.v # <<>> THEN x ELSE Undefined
\* x || '', for x a string or undefined
OrEmpty(x) == IF x.def THEN x.v ELSE <<>>

----------------------------------------------------------------------------
(* Regular expressions                                                     *)

Lit(s) == [t |-> "lit", s |-> s]
\* [...]+ , [...]* , .*? : a character class repeated at least min times
Rep(neg, cs, min, greedy) ==
    [t |-> "rep", neg |-> neg, cs |-> cs, min |-> min, greedy |-> greedy]
Cat(ps) == [t |-> "cat", ps |-> ps]
Alt(ps) == [t |-> "alt", ps |-> ps]
Opt(r) == [t |-> "opt", r |-> r]
Grp(n, r) == [t |-> "grp", n |-> n, r |-> r]
Bol == [t |-> "bol"]
Eol == [t |-> "eol"]
BolM == [t |-> "bolm"]                        \* ^ under the m flag
OneOf(cs) == [t |-> "chr", cs |-> cs]         \* [...] , one character

NoneOf(cs) == Rep(TRUE, cs, 1, TRUE)          \* [^...]+
DigitsPlus == Rep(FALSE, DigitSet, 1, TRUE)   \* \d+
DotStarLazy == Rep(TRUE, LineTerminators, 0, FALSE)   \* .*?
DotStar == Rep(TRUE, LineTerminators, 0, TRUE)        \* .*
WordChars ==
    {UpperLetters[n] : n \in 1..Len(UpperLetters)}
    \cup {LowerLetters[n] : n \in 1..Len(LowerLetters)} \cup DigitSet \cup {"_"}
WordPlus == Rep(FALSE, WordChars, 1, TRUE)     \* \w+
SpacePlus == Rep(FALSE, WhiteSpace, 1, TRUE)   \* \s+
SpaceStar == Rep(FALSE, WhiteSpace, 0, TRUE)   \* \s*

MaxGroups == 7
NoCaps == [n \in 1..MaxGroups |-> <<0, 0>>]
NoMatch == [ok |-> FALSE, start |-> 0, end |-> 0, caps |-> NoCaps]

InClass(c, neg, cs) == IF neg THEN c \notin cs ELSE c \in cs

\* number of consecutive characters of the class from position i on
RECURSIVE Run(_, _, _, _)
Run(s, i, neg, cs) ==
    IF i <= Len(s) /\ InClass(s[i], neg, cs) THEN 1 + Run(s, i + 1, neg, cs) ELSE 0

LitAt(p, s, i, ic) ==
    /\ i + Len(p) - 1 <= Len(s)
    /\ \A n \in 1..Len(p) :
          IF ic THEN LowerChar(s[i + n - 1]) = LowerChar(p[n])
                ELSE s[i + n - 1] = p[n]

\* MatchK(k, s, i, caps, ic): the first way, in backtracking order, to match
\* the regular expressions of the list k one after the other from position i
RECURSIVE MatchK(_, _, _, _, _)
RECURSIVE TryRep(_, _, _, _, _, _, _, _, _)
RECURSIVE TryAlt(_, _, _, _, _, _, _)

\* a repetition tried with n characters, then n-1 (greedy) or n+1 (lazy)
TryRep(n, lo, hi, greedy, k, s, i, caps, ic) ==
    IF n < lo \/ n > hi THEN NoMatch
    ELSE LET m == MatchK(k, s, i + n, caps, ic)
         IN  IF m.ok THEN m
             ELSE TryRep(IF greedy THEN n - 1 ELSE n + 1, lo, hi, greedy,
                         k, s, i, caps, ic)

TryAlt(ps, n, k, s, i, caps, ic) ==
    IF n > Len(ps) THEN NoMatch
    ELSE LET m == MatchK(<<ps[n]>> \o k, s, i, caps, ic)
         IN  IF m.ok THEN m ELSE TryAlt(ps, n + 1, k, s, i, caps, ic)

MatchK(k, s, i, caps, ic) ==
    IF k = <<>> THEN [ok |-> TRUE, start |-> 0, end |-> i, caps |-> caps]
    ELSE LET r == Head(k)
             rest == Tail(k)
         IN CASE r.t = "lit" ->
                   IF LitAt(r.s, s, i, ic)
                   THEN MatchK(rest, s, i + Len(r.s), caps, ic) ELSE NoMatch
              [] r.t = "rep" ->
                   LET hi == Run(s, i, r.neg, r.cs)
                   IN  TryRep(IF r.greedy THEN hi ELSE r.min, r.min, hi,
                              r.greedy, rest, s, i, caps, ic)
              [] r.t = "cat" -> MatchK(r.ps \o rest, s, i, caps, ic)
              [] r.t = "alt" -> TryAlt(r.ps, 1, rest, s, i, caps, ic)
              [] r.t = "opt" ->
                   LET m == MatchK(<<r.r>> \o rest, s, i, caps, ic)
                   IN  IF m.ok THEN m ELSE MatchK(rest, s, i, caps, ic)
              [] r.t = "grp" ->
                   MatchK(<<r.r, [t |-> "end", n |-> r.n, from |-> i]>> \o rest,
                          s, i, caps, ic)
              [] r.t = "end" ->
                   MatchK(rest, s, i, [caps EXCEPT ![r.n] = <<r.from, i>>], ic)
              [] r.t = "bol" ->
                   IF i = 1 THEN MatchK(rest, s, i, caps, ic) ELSE NoMatch
              [] r.t = "eol" ->
                   IF i = Len(s) + 1 THEN MatchK(rest, s, i, caps, ic) ELSE NoMatch
              [] r.t = "bolm" ->
                   IF i = 1 \/ (i - 1 <= Len(s) /\ s[i - 1] \in LineTerminators)
                   THEN MatchK(rest, s, i, caps, ic) ELSE NoMatch
              [] r.t = "chr" ->
                   IF i <= Len(s) /\ s[i] \in r.cs
                   THEN MatchK(rest, s, i + 1, caps, ic) ELSE NoMatch

\* RegExp.prototype.exec from lastIndex from - 1: the leftmost position from
\* which the expression matches
RECURSIVE ExecFrom(_, _, _, _)
ExecFrom(re, s, from, ic) ==
    IF from > Len(s) + 1 THEN NoMatch
    ELSE LET m == MatchK(<<re>>, s, from, NoCaps, ic)
         IN  IF m.ok THEN [m EXCEPT !.start = from]
             ELSE ExecFrom(re, s, from + 1, ic)

\* String.prototype.match for an expression without the g flag
Match(s, re, ic) == ExecFrom(re, s, 1, ic)

\* capture group n of a match: a string, or undefined when it took no part
Group(m, s, n) ==
    IF m.caps[n] = <<0, 0>> THEN Undefined
    ELSE Str(SubSeq(s, m.caps[n][1], m.caps[n][2] - 1))

\* a replacement pattern such as '$1****$3': a list of group references
\* [g |-> n] and literal texts [g |-> 0, s |-> ...]
Ref(n) == [g |-> n, s |-> <<>>]
Txt(s) == [g |-> 0, s |-> s]

RECURSIVE Expand(_, _, _)
Expand(tpl, m, s) ==
    IF tpl = <<>> THEN <<>>
    ELSE (IF Head(tpl).g = 0 THEN Head(tpl).s
          ELSE OrEmpty(Group(m, s, Head(tpl).g)))
         \o Expand(Tail(tpl), m, s)

\* String.prototype.replace with an expression without the g flag
ReplaceFirst(s, re, ic, tpl) ==
    LET m == Match(s, re, ic)
    IN  IF ~m.ok THEN s
        ELSE SubSeq(s, 1, m.start - 1) \o Expand(tpl, m, s)
             \o SubSeq(s, m.end, Len(s))

\* String.prototype.replace with the g flag, for an expression that matches
\* no empty string: every match, left to right, each search starting where
\* the previous match ended
RECURSIVE ReplaceAllFrom(_, _, _, _, _)
ReplaceAllFrom(s, re, ic, tpl, from) ==
    LET m == ExecFrom(re, s, from, ic)
    IN  IF ~m.ok THEN SubSeq(s, from, Len(s))
        ELSE SubSeq(s, from, m.start - 1) \o Expand(tpl, m, s)
             \o ReplaceAllFrom(s, re, ic, tpl, m.end)
ReplaceAll(s, re, ic, tpl) == ReplaceAllFrom(s, re, ic, tpl, 1)

----------------------------------------------------------------------------
(* Text constants of the source                                            *)

postgres == <<"p","o","s","t","g","r","e","s">>
postgresql == <<"p","o","s","t","g","r","e","s","q","l">>
mysql == <<"m","y","s","q","l">>
mariadb == <<"m","a","r","i","a","d","b">>
mongodb == <<"m","o","n","g","o","d","b">>
cockroachdb == <<"c","o","c","k","r","o","a","c","h","d","b">>
clickhouse == <<"c","l","i","c","k","h","o","u","s","e">>
SchemeSep == <<":","/","/">>                      \* ://
ServerKey == <<"S","e","r","v","e","r","=">>       \* Server=
DatabaseKey == <<"D","a","t","a","b","a","s","e","=">>   \* Database=
UserIdKey == <<"U","s","e","r"," ","I","d","=">>   \* User Id=
PasswordKey == <<"P","a","s","s","w","o","r","d","=">>   \* Password=
MaskToken == <<"*","*","*","*">>                 \* ****
true == <<"t","r","u","e">>
schema == <<"s","c","h","e","m","a">>
ssl == <<"s","s","l">>
sslmode == <<"s","s","l","m","o","d","e">>

\* DatabaseType, the dialect tags
DatabaseType ==
    {"postgresql", "mysql", "mariadb", "sqlserver", "sqlite", "clickhouse",
     "cockroachdb", "oracle"}

----------------------------------------------------------------------------
(* connection-string-parser.ts                                             *)

\* the URL expression with mongodb left out of its schemes
UrlRegexWithoutMongodb ==
    Cat(<<Bol,
          Grp(1, Alt(<<Lit(postgres), Lit(postgresql), Lit(mysql), Lit(mariadb),
                       Lit(cockroachdb)>>)),
          Lit(SchemeSep),
          Opt(Cat(<<Grp(2, NoneOf({":"})), Lit(<<":">>),
                    Grp(3, NoneOf({"@"})), Lit(<<"@">>)>>)),
          Grp(4, NoneOf({":", "/"})),
          Opt(Cat(<<Lit(<<":">>), Grp(5, DigitsPlus)>>)),
          Lit(<<"/">>),
          Grp(6, NoneOf({"?"})),
          Opt(Grp(7, Cat(<<Lit(<<"?">>), DotStar>>))),
          Eol>>)

\* /^(postgres|postgresql|mysql|mariadb|mongodb|cockroachdb):\/\/
\*   (?:([^:]+):([^@]+)@)?([^:/]+)(?::(\d+))?\/([^?]+)(\?.*)?$/i
UrlRegex ==
    Cat(<<Bol,
          Grp(1, Alt(<<Lit(postgres), Lit(postgresql), Lit(mysql), Lit(mariadb),
                       Lit(mongodb), Lit(cockroachdb)>>)),
          Lit(SchemeSep),
          Opt(Cat(<<Grp(2, NoneOf({":"})), Lit(<<":">>),
                    Grp(3, NoneOf({"@"})), Lit(<<"@">>)>>)),
          Grp(4, NoneOf({":", "/"})),
          Opt(Cat(<<Lit(<<":">>), Grp(5, DigitsPlus)>>)),
          Lit(<<"/">>),
          Grp(6, NoneOf({"?"})),
          Opt(Grp(7, Cat(<<Lit(<<"?">>), DotStar>>))),
          Eol>>)

\* /Server=([^;]+);(?:.*?Database=([^;]+))?(?:.*?User Id=([^;]+))?
\*   (?:.*?Password=([^;]+))?/i
SqlServerRegex ==
    Cat(<<Lit(ServerKey), Grp(1, NoneOf({";"})), Lit(<<";">>),
          Opt(Cat(<<DotStarLazy, Lit(DatabaseKey), Grp(2, NoneOf({";"}))>>)),
          Opt(Cat(<<DotStarLazy, Lit(UserIdKey), Grp(3, NoneOf({";"}))>>)),
          Opt(Cat(<<DotStarLazy, Lit(PasswordKey), Grp(4, NoneOf({";"}))>>))>>)

\* /^(?:([^/]+)\/([^@]+)@)?([^:/]+)(?::(\d+))?\/([^?]+)$/
OracleRegex ==
    Cat(<<Bol,
          Opt(Cat(<<Grp(1, NoneOf({"/"})), Lit(<<"/">>),
                    Grp(2, NoneOf({"@"})), Lit(<<"@">>)>>)),
          Grp(3, NoneOf({":", "/"})),
          Opt(Cat(<<Lit(<<":">>), Grp(4, DigitsPlus)>>)),
          Lit(<<"/">>),
          Grp(5, NoneOf({"?"})),
          Eol>>)

\* /^clickhouse:\/\/(?:([^:]+):([^@]+)@)?([^:/]+)(?::(\d+))?\/([^?]+)(\?.*)?$/i
ClickhouseRegex ==
    Cat(<<Bol, Lit(clickhouse), Lit(SchemeSep),
          Opt(Cat(<<Grp(1, NoneOf({":"})), Lit(<<":">>),
                    Grp(2, NoneOf({"@"})), Lit(<<"@">>)>>)),
          Grp(3, NoneOf({":", "/"})),
          Opt(Cat(<<Lit(<<":">>), Grp(4, DigitsPlus)>>)),
          Lit(<<"/">>),
          Grp(5, NoneOf({"?"})),
          Opt(Grp(6, Cat(<<Lit(<<"?">>), DotStar>>))),
          Eol>>)

\* the pieces of s between the occurrences of the characters of seps
\* (String.prototype.split on a one-character class)
RECURSIVE SplitFrom(_, _, _, _)
SplitFrom(s, seps, i, cur) ==
    IF i > Len(s) THEN <<cur>>
    ELSE IF s[i] \in seps THEN <<cur>> \o SplitFrom(s, seps, i + 1, <<>>)
    ELSE SplitFrom(s, seps, i + 1, Append(cur, s[i]))
Split(s, seps) == SplitFrom(s, seps, 1, <<>>)

\* new URLSearchParams(params): the name/value pairs of a query string, its
\* leading '?' dropped, empty pieces skipped, each piece cut at its first '='
\* (percent-decoding left out: the texts of the model hold no '%' and no '+')
PairOf(piece) ==
    LET n == Run(piece, 1, TRUE, {"="})
    IN  [name |-> SubSeq(piece, 1, n), value |-> SubSeq(piece, n + 2, Len(piece))]
URLSearchParams(params) ==
    LET body == IF params # <<>> /\ Head(params) = "?" THEN Tail(params) ELSE params
        pieces == SelectSeq(Split(body, {"&"}), LAMBDA p : p # <<>>)
    IN  [n \in 1..Len(pieces) |-> PairOf(pieces[n])]
\* URLSearchParams.prototype.has
Has(qp, name) == \E n \in 1..Len(qp) : qp[n].name = name
\* URLSearchParams.prototype.get: the first value of the name, or null
Get(qp, name) ==
    IF Has(qp, name)
    THEN Str(qp[CHOOSE n \in 1..Len(qp) :
                   /\ qp[n].name = name
                   /\ \A k \in 1..(n - 1) : qp[k].name # name].value)
    ELSE Undefined

\* getDefaultPort
GetDefaultPort(databaseType) ==
    CASE databaseType \in {"postgresql", "cockroachdb"} -> 5432
      [] databaseType \in {"mysql", "mariadb"} -> 3306
      [] databaseType = "sqlserver" -> 1433
      [] databaseType = "oracle" -> 1521
      [] databaseType = "clickhouse" -> 8123
      [] databaseType = "sqlite" -> 0
      [] OTHER -> 0

\* the result null of parseConnectionString
Null ==
    [isNull |-> TRUE, host |-> <<>>, port |-> 0, database |-> <<>>,
     user |-> Undefined, password |-> Undefined, schema |-> Undefined,
     ssl |-> "undefined", databaseType |-> "none"]

\* a ConnectionStringInfo; ssl is "true", "false" or "undefined" (not set)
Info(host, port, database, user, password, sch, sslv, databaseType) ==
    [isNull |-> FALSE, host |-> host, port |-> port, database |-> database,
     user |-> user, password |-> password, schema |-> sch, ssl |-> sslv,
     databaseType |-> databaseType]

\* the switch on protocol.toLowerCase(); "null" stands for 'return null'
ProtocolType(protocol) ==
    LET p == ToLowerCase(protocol)
    IN  CASE p = postgres \/ p = postgresql -> "postgresql"
          [] p = mysql -> "mysql"
          [] p = mariadb -> "mariadb"
          [] p = mongodb -> "null"
          [] p = cockroachdb -> "cockroachdb"
          [] OTHER -> "null"

\* the ssl option of the query parameters
SslOf(queryParams) ==
    IF Has(queryParams, ssl)
    THEN (IF Get(queryParams, ssl) = Str(true) THEN "true" ELSE "false")
    ELSE (IF Has(queryParams, sslmode) THEN "true" ELSE "false")

\* the URL branch of parseConnectionString, for a match m
UrlBranch(s, m) ==
    LET databaseType == ProtocolType(Group(m, s, 1).v)
        port == Group(m, s, 5)
        queryParams == URLSearchParams(OrEmpty(Group(m, s, 7)))
    IN  IF databaseType = "null" THEN Null
        ELSE Info(Group(m, s, 4).v,
                  IF port.def /\ port.v # <<>> THEN ParseInt(port.v)
                  ELSE GetDefaultPort(databaseType),
                  Group(m, s, 6).v,
                  OrUndefined(Group(m, s, 2)),
                  OrUndefined(Group(m, s, 3)),
                  OrUndefined(Get(queryParams, schema)),
                  SslOf(queryParams),
                  databaseType)

\* the SQL Server branch of parseConnectionString, for a match m
SqlServerBranch(s, m) ==
    LET host == Group(m, s, 1).v
        hostParts == Split(host, {",", ":"})
        actualHost == hostParts[1]
        port == IF Len(hostParts) >= 2 /\ hostParts[2] # <<>>
                THEN ParseInt(hostParts[2])
                ELSE GetDefaultPort("sqlserver")
    IN  Info(actualHost, port, OrEmpty(Group(m, s, 2)),
             OrUndefined(Group(m, s, 3)), OrUndefined(Group(m, s, 4)),
             Undefined, "undefined", "sqlserver")

\* the Oracle branch of parseConnectionString, for a match m
OracleBranch(s, m) ==
    LET port == Group(m, s, 4)
    IN  Info(Group(m, s, 3).v,
             IF port.def /\ port.v # <<>> THEN ParseInt(port.v) ELSE 1521,
             Group(m, s, 5).v,
             OrUndefined(Group(m, s, 1)), OrUndefined(Group(m, s, 2)),
             Undefined, "undefined", "oracle")

\* the ClickHouse branch of parseConnectionString, for a match m
ClickhouseBranch(s, m) ==
    LET port == Group(m, s, 4)
    IN  Info(Group(m, s, 3).v,
             IF port.def /\ port.v # <<>> THEN ParseInt(port.v) ELSE 8123,
             Group(m, s, 5).v,
             OrUndefined(Group(m, s, 1)), OrUndefined(Group(m, s, 2)),
             Undefined, "undefined", "clickhouse")

\* parseConnectionString
ParseConnectionString(connectionString) ==
    LET urlMatch == Match(connectionString, UrlRegex, TRUE)
        sqlServerMatch == Match(connectionString, SqlServerRegex, TRUE)
        oracleMatch == Match(connectionString, OracleRegex, FALSE)
        clickhouseMatch == Match(connectionString, ClickhouseRegex, TRUE)
    IN  IF urlMatch.ok THEN UrlBranch(connectionString, urlMatch)
        ELSE IF sqlServerMatch.ok
             THEN SqlServerBranch(connectionString, sqlServerMatch)
        ELSE IF oracleMatch.ok /\ ~urlMatch.ok
             THEN OracleBranch(connectionString, oracleMatch)
        ELSE IF clickhouseMatch.ok
             THEN ClickhouseBranch(connectionString, clickhouseMatch)
        ELSE Null

\* maskConnectionString:
\*   .replace(/(:\/\/[^:]+:)([^@]+)(@)/, '$1****$3')
\*   .replace(/(Password=)([^;]+)/gi, '$1****')
CredentialRegex ==
    Cat(<<Grp(1, Cat(<<Lit(SchemeSep), NoneOf({":"}), Lit(<<":">>)>>)),
          Grp(2, NoneOf({"@"})),
          Grp(3, Lit(<<"@">>))>>)
PasswordRegex ==
    Cat(<<Grp(1, Lit(PasswordKey)), Grp(2, NoneOf({";"}))>>)
MaskConnectionString(connectionString) ==
    ReplaceAll(ReplaceFirst(connectionString, CredentialRegex, FALSE,
                            <<Ref(1), Txt(MaskToken), Ref(3)>>),
               PasswordRegex, TRUE, <<Ref(1), Txt(MaskToken)>>)

\* validateConnectionString with the database checked before the host
ValidateDatabaseFirst(connectionString) ==
    LET p == ParseConnectionString(connectionString)
    IN  IF Trim(connectionString) = <<>>
        THEN [isValid |-> FALSE, error |-> "Connection string cannot be empty"]
        ELSE IF p.isNull
        THEN [isValid |-> FALSE, error |-> "Invalid connection string format. Please check the format for your database type."]
        ELSE IF p.database = <<>>
        THEN [isValid |-> FALSE, error |-> "Database name is required"]
        ELSE IF p.host = <<>>
        THEN [isValid |-> FALSE, error |-> "Host is required"]
        ELSE [isValid |-> TRUE, error |-> ""]

\* validateConnectionString: the error reported, "" when isValid
ValidateConnectionString(connectionString) ==
    LET p == ParseConnectionString(connectionString)
    IN  IF Trim(connectionString) = <<>>
        THEN [isValid |-> FALSE, error |-> "Connection string cannot be empty"]
        ELSE IF p.isNull
        THEN [isValid |-> FALSE, error |-> "Invalid connection string format. Please check the format for your database type."]
        ELSE IF p.host = <<>>
        THEN [isValid |-> FALSE, error |-> "Host is required"]
        ELSE IF p.database = <<>>
        THEN [isValid |-> FALSE, error |-> "Database name is required"]
        ELSE [isValid |-> TRUE, error |-> ""]

\* getConnectionStringExample
GetConnectionStringExample(databaseType) ==
    CASE databaseType = "postgresql" -> <<"p","o","s","t","g","r","e","s","q",
          "l",":","/","/","u","s","e","r",":","p","a","s","s","w","o","r","d",
          "@","l","o","c","a","l","h","o","s","t",":","5","4","3","2","/","m",
          "y","d","b">>
      [] databaseType = "mysql" -> <<"m","y","s","q","l",":","/","/","u","s",
          "e","r",":","p","a","s","s","w","o","r","d","@","l","o","c","a","l",
          "h","o","s","t",":","3","3","0","6","/","m","y","d","b">>
      [] databaseType = "mariadb" -> <<"m","a","r","i","a","d","b",":","/","/",
          "u","s","e","r",":","p","a","s","s","w","o","r","d","@","l","o","c",
          "a","l","h","o","s","t",":","3","3","0","6","/","m","y","d","b">>
      [] databaseType = "sqlserver" -> <<"S","e","r","v","e","r","=","l","o",
          "c","a","l","h","o","s","t",";","D","a","t","a","b","a","s","e","=",
          "m","y","d","b",";","U","s","e","r"," ","I","d","=","s","a",";","P",
          "a","s","s","w","o","r","d","=","y","o","u","r","p","a","s","s","w",
          "o","r","d">>
      [] databaseType = "sqlite" -> <<"f","i","l","e",":","/","/","/","p","a",
          "t","h","/","t","o","/","d","a","t","a","b","a","s","e",".","d",
          "b">>
      [] databaseType = "clickhouse" -> <<"c","l","i","c","k","h","o","u","s",
          "e",":","/","/","u","s","e","r",":","p","a","s","s","w","o","r","d",
          "@","l","o","c","a","l","h","o","s","t",":","8","1","2","3","/","m",
          "y","d","b">>
      [] databaseType = "cockroachdb" -> <<"c","o","c","k","r","o","a","c","h",
          "d","b",":","/","/","u","s","e","r",":","p","a","s","s","w","o","r",
          "d","@","l","o","c","a","l","h","o","s","t",":","2","6","2","5","7",
          "/","m","y","d","b">>
      [] databaseType = "oracle" -> <<"u","s","e","r","/","p","a","s","s","w",
          "o","r","d","@","l","o","c","a","l","h","o","s","t",":","1","5","2",
          "1","/","O","R","C","L">>
      [] OTHER -> <<>>

----------------------------------------------------------------------------
(* server/index.js                                                         *)

\* /^(postgres|postgresql|mysql|mariadb|cockroachdb):\/\/
\*   (?:([^:]+):([^@]+)@)?([^:/]+)(?::(\d+))?\/([^?]+)(\?.*)?$/i
ServerUrlRegex ==
    Cat(<<Bol,
          Grp(1, Alt(<<Lit(postgres), Lit(postgresql), Lit(mysql), Lit(mariadb),
                       Lit(cockroachdb)>>)),
          Lit(SchemeSep),
          Opt(Cat(<<Grp(2, NoneOf({":"})), Lit(<<":">>),
                    Grp(3, NoneOf({"@"})), Lit(<<"@">>)>>)),
          Grp(4, NoneOf({":", "/"})),
          Opt(Cat(<<Lit(<<":">>), Grp(5, DigitsPlus)>>)),
          Lit(<<"/">>),
          Grp(6, NoneOf({"?"})),
          Opt(Grp(7, Cat(<<Lit(<<"?">>), DotStar>>))),
          Eol>>)

\* getDefaultPort of the server: ports[databaseType] || 5432
ServerGetDefaultPort(databaseType) ==
    CASE databaseType = "postgresql" -> 5432
      [] databaseType = "cockroachdb" -> 26257
      [] databaseType \in {"mysql", "mariadb"} -> 3306
      [] databaseType = "sqlserver" -> 1433
      [] OTHER -> 5432

\* protocol.toLowerCase(), 'postgres' renamed 'postgresql', as a dialect tag
ServerProtocolType(protocol) ==
    LET p == ToLowerCase(protocol)
    IN  CASE p = postgres \/ p = postgresql -> "postgresql"
          [] p = mysql -> "mysql"
          [] p = mariadb -> "mariadb"
          [] p = cockroachdb -> "cockroachdb"

\* parseConnectionString of the server
ServerParseConnectionString(connectionString) ==
    LET urlMatch == Match(connectionString, ServerUrlRegex, TRUE)
        sqlServerMatch == Match(connectionString, SqlServerRegex, TRUE)
    IN  IF urlMatch.ok
        THEN LET databaseType == ServerProtocolType(Group(urlMatch, connectionString, 1).v)
                 port == Group(urlMatch, connectionString, 5)
                 queryParams ==
                     URLSearchParams(OrEmpty(Group(urlMatch, connectionString, 7)))
             IN  Info(Group(urlMatch, connectionString, 4).v,
                      IF port.def /\ port.v # <<>> THEN ParseInt(port.v)
                      ELSE ServerGetDefaultPort(databaseType),
                      Group(urlMatch, connectionString, 6).v,
                      OrUndefined(Group(urlMatch, connectionString, 2)),
                      OrUndefined(Group(urlMatch, connectionString, 3)),
                      Undefined, SslOf(queryParams), databaseType)
        ELSE IF sqlServerMatch.ok
        THEN LET host == Group(sqlServerMatch, connectionString, 1).v
                 hostParts == Split(host, {",", ":"})
             IN  Info(hostParts[1],
                      IF Len(hostParts) >= 2 /\ hostParts[2] # <<>>
                      THEN ParseInt(hostParts[2]) ELSE 1433,
                      OrEmpty(Group(sqlServerMatch, connectionString, 2)),
                      OrUndefined(Group(sqlServerMatch, connectionString, 3)),
                      OrUndefined(Group(sqlServerMatch, connectionString, 4)),
                      Undefined, "undefined", "sqlserver")
        ELSE Null

----------------------------------------------------------------------------
(* detect-import-method.ts                                                 *)

\* the values of ImportMethod that detectImportMethod returns; "null" stands
\* for its result null
ImportMethod == {"connection", "dbml", "ddl", "query"}

\* /^(postgres|postgresql|mysql|mariadb|cockroachdb):\/\//i, /^Server=/i,
\* /^[^/]+\/[^@]+@[^:/]+:\d+\//i, /^clickhouse:\/\//i
connectionStringPatterns ==
    <<Cat(<<Bol, Alt(<<Lit(postgres), Lit(postgresql), Lit(mysql), Lit(mariadb),
                       Lit(cockroachdb)>>), Lit(SchemeSep)>>),
      Cat(<<Bol, Lit(ServerKey)>>),
      Cat(<<Bol, NoneOf({"/"}), Lit(<<"/">>), NoneOf({"@"}), Lit(<<"@">>),
            NoneOf({":", "/"}), Lit(<<":">>), DigitsPlus, Lit(<<"/">>)>>),
      Cat(<<Bol, Lit(clickhouse), Lit(SchemeSep)>>)>>

\* connectionStringPatterns.some((pattern) => pattern.test(trimmed))
HasConnectionStringPattern(trimmed) ==
    \E n \in 1..Len(connectionStringPatterns) :
        Match(trimmed, connectionStringPatterns[n], TRUE).ok

\* /^Table\s+\w+\s*{/m, /^Ref:\s*\w+/m, /^Enum\s+\w+\s*{/m,
\* /^TableGroup\s+/m, /^Note\s+\w+\s*{/m, /\[pk\]/, /\[ref:\s*[<>-]/
dbmlPatterns ==
    <<Cat(<<BolM, Lit(<<"T","a","b","l","e">>), SpacePlus, WordPlus, SpaceStar, Lit(<<"{">>)>>),
      Cat(<<BolM, Lit(<<"R","e","f",":">>), SpaceStar, WordPlus>>),
      Cat(<<BolM, Lit(<<"E","n","u","m">>), SpacePlus, WordPlus, SpaceStar, Lit(<<"{">>)>>),
      Cat(<<BolM, Lit(<<"T","a","b","l","e","G","r","o","u","p">>), SpacePlus>>),
      Cat(<<BolM, Lit(<<"N","o","t","e">>), SpacePlus, WordPlus, SpaceStar, Lit(<<"{">>)>>),
      Lit(<<"[","p","k","]">>),
      Cat(<<Lit(<<"[","r","e","f",":">>), SpaceStar, OneOf({"<", ">", "-"})>>)>>

\* dbmlPatterns.some((pattern) => pattern.test(content))
HasDBMLPatterns(content) ==
    \E n \in 1..Len(dbmlPatterns) : Match(content, dbmlPatterns[n], FALSE).ok

ddlKeywords ==
    <<<<"C","R","E","A","T","E"," ","T","A","B","L","E">>,
      <<"A","L","T","E","R"," ","T","A","B","L","E">>,
      <<"D","R","O","P"," ","T","A","B","L","E">>,
      <<"C","R","E","A","T","E"," ","I","N","D","E","X">>,
      <<"C","R","E","A","T","E"," ","V","I","E","W">>,
      <<"C","R","E","A","T","E"," ","P","R","O","C","E","D","U","R","E">>,
      <<"C","R","E","A","T","E"," ","F","U","N","C","T","I","O","N">>,
      <<"C","R","E","A","T","E"," ","S","C","H","E","M","A">>,
      <<"C","R","E","A","T","E"," ","D","A","T","A","B","A","S","E">>>>

\* ddlKeywords.some((keyword) => upperContent.includes(keyword))
HasDDLKeywords(upperContent) ==
    \E n \in 1..Len(ddlKeywords) : Includes(upperContent, ddlKeywords[n])

\* s.startsWith(p) and s.endsWith(p)
StartsWith(s, p) == StartsWithAt(s, p, 1)
EndsWith(s, p) == Len(p) <= Len(s) /\ StartsWithAt(s, p, Len(s) - Len(p) + 1)

\* the test on the outer braces or brackets of the trimmed content
LooksLikeJson(trimmed) ==
    \/ StartsWith(trimmed, <<"{">>) /\ EndsWith(trimmed, <<"}">>)
    \/ StartsWith(trimmed, <<"[">>) /\ EndsWith(trimmed, <<"]">>)

\* detectImportMethod with the shape of a connection string trusted, the
\* text not parsed
DetectTrustingShape(content) ==
    IF content = <<>> \/ Len(Trim(content)) = 0 THEN "null"
    ELSE IF HasConnectionStringPattern(Trim(content)) THEN "connection"
    ELSE IF HasDBMLPatterns(content) THEN "dbml"
    ELSE IF HasDDLKeywords(ToUpperCase(content)) THEN "ddl"
    ELSE IF LooksLikeJson(Trim(content)) THEN "query"
    ELSE "null"

\* detectImportMethod with the DDL keywords looked for before the DBML
\* patterns
DetectDdlFirst(content) ==
    IF content = <<>> \/ Len(Trim(content)) = 0 THEN "null"
    ELSE IF /\ HasConnectionStringPattern(Trim(content))
            /\ ~ParseConnectionString(Trim(content)).isNull THEN "connection"
    ELSE IF HasDDLKeywords(ToUpperCase(content)) THEN "ddl"
    ELSE IF HasDBMLPatterns(content) THEN "dbml"
    ELSE IF LooksLikeJson(Trim(content)) THEN "query"
    ELSE "null"

\* detectImportMethod with a tag of its own for content in braces
DetectJsonTag(content) ==
    IF content = <<>> \/ Len(Trim(content)) = 0 THEN "null"
    ELSE IF /\ HasConnectionStringPattern(Trim(content))
            /\ ~ParseConnectionString(Trim(content)).isNull THEN "connection"
    ELSE IF HasDBMLPatterns(content) THEN "dbml"
    ELSE IF HasDDLKeywords(ToUpperCase(content)) THEN "ddl"
    ELSE IF LooksLikeJson(Trim(content)) THEN "json"
    ELSE "null"

\* detectImportMethod
DetectImportMethod(content) ==
    IF content = <<>> \/ Len(Trim(content)) = 0 THEN "null"
    ELSE IF /\ HasConnectionStringPattern(Trim(content))
            /\ ~ParseConnectionString(Trim(content)).isNull THEN "connection"
    ELSE IF HasDBMLPatterns(content) THEN "dbml"
    ELSE IF HasDDLKeywords(ToUpperCase(content)) THEN "ddl"
    ELSE IF LooksLikeJson(Trim(content)) THEN "query"
    ELSE "null"

----------------------------------------------------------------------------
(* The texts handed to the operations                                      *)

\* URL-style texts: scheme://[user[:password]@]host[:port][/database][?params]
UrlSchemes == {postgres, postgresql, mysql, mariadb, cockroachdb, <<"P","o","s","t","g","r","e","S","Q","L">>}
Schemes == UrlSchemes \cup {mongodb, clickhouse}
NoCredential == [text |-> <<>>, user |-> Undefined, password |-> Undefined]
UserPassword ==
    [text |-> <<"u","s","e","r",":","p","w","1","@">>,
     user |-> Str(<<"u","s","e","r">>), password |-> Str(<<"p","w","1">>)]
UserOnly ==
    [text |-> <<"r","o","o","t","@">>, user |-> Str(<<"r","o","o","t">>),
     password |-> Undefined]
Credentials == {NoCredential, UserPassword, UserOnly}
HostNames == {<<"d","b","1">>}
NoPort == [text |-> <<>>, given |-> FALSE, n |-> 0]
UrlPorts == {NoPort, [text |-> <<":","5","4","3","3">>, given |-> TRUE, n |-> 5433]}
DatabaseNames == {<<"a","p","p">>}
UrlQueries == {<<>>, <<"?","s","s","l","=","t","r","u","e">>,
               <<"?","s","s","l","m","o","d","e","=","r","e","q","u","i","r","e">>,
               <<"?","s","s","l","=","f","a","l","s","e","&","s","s","l","m","o","d","e","=","r","e","q","u","i","r","e">>,
               <<"?","s","c","h","e","m","a","=","p","u","b","l","i","c">>,
               <<"?","u","s","e","r","=","a","@","b">>}
UrlText(sch, cred, h, port, db, query) ==
    sch \o SchemeSep \o cred.text \o h \o port.text
        \o (IF db = <<>> THEN <<>> ELSE <<"/">> \o db) \o query
UrlTexts ==
    {UrlText(sch, cred, h, port, db, query) :
        sch \in Schemes, cred \in Credentials, h \in HostNames,
        port \in UrlPorts, db \in DatabaseNames \cup {<<>>},
        query \in UrlQueries}

\* key-value texts: the segments Server=, Database=, User Id=, Password= in
\* any order, any subset that holds Server=, joined by ';', with or without
\* a closing ';'
ServerKeys == {ServerKey, <<"s","e","r","v","e","r","=">>}
PlainServerValues == {<<"d","b","1">>}
PortServerValues == {<<"d","b","1",",","1","4","3","4">>, <<"d","b","1",":","1","4","3","4">>,
                     <<",","1","4","3","4">>,
                     <<"t","c","p",":","d","b","1",",","1","4","3","4">>}
DatabaseSegment == <<"D","a","t","a","b","a","s","e","=","a","p","p">>
UserIdSegment == <<"U","s","e","r"," ","I","d","=","s","a">>
PasswordSegment == <<"P","a","s","s","w","o","r","d","=","p","w","1">>
OtherSegments == {DatabaseSegment, UserIdSegment, PasswordSegment}
RECURSIVE Join(_, _)
Join(segs, sep) ==
    IF Len(segs) = 0 THEN <<>>
    ELSE IF Len(segs) = 1 THEN segs[1]
    ELSE segs[1] \o sep \o Join(Tail(segs), sep)
Orders(segs) ==
    {o \in UNION {[1..n -> segs] : n \in 1..Cardinality(segs)} :
        \A a, b \in DOMAIN o : a # b => o[a] # o[b]}
KeyValueTextsOf(vals) ==
    {Join(o, <<";">>) \o closing :
        o \in UNION {{x \in Orders(OtherSegments \cup {key \o val}) :
                        \E n \in DOMAIN x : x[n] = key \o val} :
                     key \in ServerKeys, val \in vals},
        closing \in {<<>>, <<";">>}}
KeyValueTexts == KeyValueTextsOf(PlainServerValues \cup PortServerValues)

\* Oracle-style texts: [user/password@]host[:port]/service
OraclePorts == {NoPort, [text |-> <<":","1","5","2","2">>, given |-> TRUE, n |-> 1522]}
OracleText(cred, h, port) == cred \o h \o port.text \o <<"/","O","R","C","L">>
OracleTexts ==
    {OracleText(cred, h, port) :
        cred \in {<<>>, <<"s","c","o","t","t","/","p","w","1","@">>},
        h \in HostNames, port \in OraclePorts}

\* the examples of getConnectionStringExample
ExampleTexts == {GetConnectionStringExample(d) : d \in DatabaseType}

\* texts put together from pieces of credentials, well formed or not: the
\* scheme separator, a credential segment, a Password= segment, one whose
\* password is ':@', a segment separator and a host name
MaxFragments == 4
CredentialSegment == UserPassword.text
OddPasswordSegment == <<"P","a","s","s","w","o","r","d","=",":","@">>   \* Password=:@
Fragments == {SchemeSep, CredentialSegment, PasswordSegment,
              OddPasswordSegment, <<";">>, <<"d","b","1">>}
RECURSIVE FragmentTexts(_)
FragmentTexts(n) ==
    IF n = 0 THEN {<<>>}
    ELSE LET shorter == FragmentTexts(n - 1)
         IN  shorter \cup {t \o f : t \in shorter, f \in Fragments}

BlankTexts == {<<" ">>, <<" ", "\t">>}

Texts ==
    UrlTexts \cup KeyValueTexts \cup OracleTexts \cup ExampleTexts
    \cup FragmentTexts(MaxFragments) \cup BlankTexts

\* texts for detectImportMethod: a body, alone or followed by a second one
\* on the same line or on the next, bare, padded or in braces or brackets
DetectBodies ==
    {<<>>,
     <<"p","o","s","t","g","r","e","s","q","l",":","/","/","u","s","e","r",":","p","w","1","@","d","b","1","/","a","p","p">>,
     <<"S","e","r","v","e","r","=","d","b","1",";","D","a","t","a","b","a","s","e","=","a","p","p">>,
     <<"s","c","o","t","t","/","p","w","1","@","d","b","1",":","1","5","2","2","/","O","R","C","L">>,
     <<"c","l","i","c","k","h","o","u","s","e",":","/","/","d","b","1","/","a","p","p">>,
     <<"p","o","s","t","g","r","e","s","q","l",":","/","/">>,
     <<"S","e","r","v","e","r","=","d","b","1">>,
     <<"c","l","i","c","k","h","o","u","s","e",":","/","/">>,
     <<"s","c","o","t","t","/","p","w","1","@","d","b","1",":","1","5","2","2","/">>,
     <<"T","a","b","l","e"," ","u","s","e","r","s"," ","{">>,
     <<"t","a","b","l","e"," ","u","s","e","r","s"," ","{">>,
     <<"R","e","f",":"," ","a">>,
     <<"E","n","u","m"," ","e"," ","{">>,
     <<"T","a","b","l","e","G","r","o","u","p"," ","g">>,
     <<"N","o","t","e"," ","n"," ","{">>,
     <<"[","p","k","]">>,
     <<"[","r","e","f",":"," ",">">>,
     <<"C","R","E","A","T","E"," ","T","A","B","L","E"," ","t">>,
     <<"c","r","e","a","t","e"," ","t","a","b","l","e"," ","t">>,
     <<"A","L","T","E","R"," ","T","A","B","L","E"," ","t">>,
     <<"D","R","O","P"," ","T","A","B","L","E"," ","t">>,
     <<"C","R","E","A","T","E"," ","I","N","D","E","X"," ","i">>,
     <<"C","R","E","A","T","E"," ","V","I","E","W"," ","v">>,
     <<"C","R","E","A","T","E"," ","P","R","O","C","E","D","U","R","E"," ","p">>,
     <<"C","R","E","A","T","E"," ","F","U","N","C","T","I","O","N"," ","f">>,
     <<"C","R","E","A","T","E"," ","S","C","H","E","M","A"," ","s">>,
     <<"C","R","E","A","T","E"," ","D","A","T","A","B","A","S","E"," ","d">>,
     <<"x">>}
DetectTrailers ==
    {<<>>,
     <<"[","p","k","]">>,
     <<"C","R","E","A","T","E"," ","T","A","B","L","E"," ","t">>,
     <<"T","a","b","l","e"," ","u","s","e","r","s"," ","{">>,
     <<"x">>}
Separators == {<<>>, <<" ">>, <<"\n">>}
Wrappers ==
    {[open |-> <<>>, close |-> <<>>], [open |-> <<" ">>, close |-> <<" ", "\n">>],
     [open |-> <<"{">>, close |-> <<"}">>], [open |-> <<"[">>, close |-> <<"]">>],
     [open |-> <<" ", "[">>, close |-> <<"]", " ">>]}
DetectText(w, a, sep, b) == w.open \o a \o sep \o b \o w.close
DetectTexts ==
    {DetectText(w, a, sep, b) :
        w \in Wrappers, a \in DetectBodies, sep \in Separators,
        b \in DetectTrailers}

----------------------------------------------------------------------------
(* The calls                                                               *)

NoValidation == [isValid |-> FALSE, error |-> "none"]

\* no function called yet
NoCall ==
    /\ op = "idle"
    /\ parsed = Null
    /\ validation = NoValidation
    /\ masked = <<>>
    /\ remasked = <<>>
    /\ detected = "null"
    /\ redetected = "null"

\* the component as its useState calls leave it, connectionString = ''
Mounted ==
    /\ localConnectionString = <<>>
    /\ showPassword = FALSE
    /\ validationError = ""
    /\ connectionInfo = Null
    /\ generatedScript = ""
    /\ isConnecting = FALSE
    /\ extractionStatus = ""
    /\ requests = <<>>
    /\ delivered = Undefined
    /\ applied = 0
    /\ edits = 0

\* the server after app.listen
Listening ==
    /\ dispatched = <<>>
    /\ dbConnections = {}

Init ==
    /\ text \in Texts
    /\ NoCall
    /\ Mounted
    /\ Listening

\* parseConnectionString(text), as the connection instructions call it
Parse ==
    /\ op = "idle"
    /\ op' = "parse"
    /\ parsed' = ParseConnectionString(text)
    /\ UNCHANGED <<text, validation, masked, remasked, detected, redetected>>
    /\ UNCHANGED <<uiVars, serverVars>>

\* parseConnectionString(text) of the server, as extractSchemaFromConnection
\* calls it
ServerParse ==
    /\ op = "idle"
    /\ op' = "serverParse"
    /\ parsed' = ServerParseConnectionString(text)
    /\ UNCHANGED <<text, validation, masked, remasked, detected, redetected>>
    /\ UNCHANGED <<uiVars, serverVars>>

\* validateConnectionString(text)
Validate ==
    /\ op = "idle"
    /\ op' = "validate"
    /\ validation' = ValidateConnectionString(text)
    /\ UNCHANGED <<text, parsed, masked, remasked, detected, redetected>>
    /\ UNCHANGED <<uiVars, serverVars>>

\* maskConnectionString(text)
Mask ==
    /\ op = "idle"
    /\ op' = "mask"
    /\ masked' = MaskConnectionString(text)
    /\ UNCHANGED <<text, parsed, validation, remasked, detected, redetected>>
    /\ UNCHANGED <<uiVars, serverVars>>

\* maskConnectionString applied to its own result
MaskAgain ==
    /\ op = "mask"
    /\ op' = "remask"
    /\ remasked' = MaskConnectionString(masked)
    /\ UNCHANGED <<text, parsed, validation, masked, detected, redetected>>
    /\ UNCHANGED <<uiVars, serverVars>>

Next == Parse \/ ServerParse \/ Validate \/ Mask \/ MaskAgain

Spec == Init /\ [][Next]_vars

\* detectImportMethod(text)
Detect ==
    /\ op = "idle"
    /\ op' = "detect"
    /\ detected' = DetectImportMethod(text)
    /\ UNCHANGED <<text, parsed, validation, masked, remasked, redetected>>
    /\ UNCHANGED <<uiVars, serverVars>>

\* detectImportMethod(text), called a second time
DetectAgain ==
    /\ op = "detect"
    /\ op' = "redetect"
    /\ redetected' = DetectImportMethod(text)
    /\ UNCHANGED <<text, parsed, validation, masked, remasked, detected>>
    /\ UNCHANGED <<uiVars, serverVars>>

\* the functions of the core, called on the texts of the import dialog
DetectInit ==
    /\ text \in DetectTexts
    /\ NoCall
    /\ Mounted
    /\ Listening

DetectNext == Detect \/ DetectAgain \/ Parse \/ Validate \/ Mask

DetectSpec == DetectInit /\ [][DetectNext]_vars

----------------------------------------------------------------------------
(* The ConnectionInstructions component and the extraction server          *)

MaxEdits == 3
MaxRequests == 2

\* what the user pastes over the whole field, and types at its end
PastedTexts ==
    {UrlText(postgresql, UserPassword, <<"d","b","1">>, NoPort, <<"a","p","p">>, <<>>),
     UrlText(mysql, NoCredential, <<"d","b","1">>, NoPort, <<"a","p","p">>, <<>>),
     ServerKey \o <<"d","b","1",";">> \o DatabaseSegment,
     OracleText(<<"s","c","o","t","t","/","p","w","1","@">>, <<"d","b","1">>, NoPort)}
TypedChars == {"2"}

\* displayConnectionString, the value of the input field
DisplayConnectionString ==
    IF showPassword THEN localConnectionString
    ELSE MaskConnectionString(localConnectionString)

\* the request extractSchema(connString) sends: its JSON body, the
\* connectionInfo of the render the call was made in, and what became of it
Request(connString) ==
    [body |-> [connectionString |-> connString],
     connectionInfo |-> connectionInfo,
     state |-> "sent", ok |-> FALSE, error |-> ""]

\* the effect on localConnectionString, run once the field holds value; it
\* ends with the call extractSchema(localConnectionString)
Effect(value) ==
    LET validation_ == ValidateConnectionString(value)
        parsed_ == ParseConnectionString(value)
    IN  IF Trim(value) = <<>> \/ ~validation_.isValid
        THEN /\ validationError' =
                    IF Trim(value) = <<>> THEN "" ELSE validation_.error
             /\ connectionInfo' = Null
             /\ generatedScript' = ""
             /\ extractionStatus' = ""
             /\ UNCHANGED <<isConnecting, requests>>
        ELSE /\ validationError' = ""
             /\ connectionInfo' = parsed_
             /\ IF parsed_.isNull
                THEN UNCHANGED <<isConnecting, extractionStatus, requests>>
                ELSE /\ Len(requests) < MaxRequests
                     /\ isConnecting' = TRUE
                     /\ extractionStatus' = "Connecting to database..."
                     /\ requests' = Append(requests, Request(value))
             /\ UNCHANGED generatedScript

\* onChange with e.target.value = value: setLocalConnectionString(value),
\* then the effect; setting the state to the value it has does nothing
Change(value) ==
    /\ edits < MaxEdits
    /\ value # localConnectionString
    /\ edits' = edits + 1
    /\ localConnectionString' = value
    /\ Effect(value)
    /\ UNCHANGED <<showPassword, delivered, applied>>
    /\ UNCHANGED <<callVars, serverVars>>

\* the user replaces the content of the field
Paste == \E pasted \in PastedTexts : Change(pasted)

\* the user types a character at the end of what the field shows
Type == \E c \in TypedChars : Change(Append(DisplayConnectionString, c))

\* the user deletes the last character of what the field shows
Backspace ==
    /\ DisplayConnectionString # <<>>
    /\ Change(SubSeq(DisplayConnectionString, 1,
                     Len(DisplayConnectionString) - 1))

\* the button of the field: setShowPassword(!showPassword)
Toggle ==
    /\ showPassword' = ~showPassword
    /\ UNCHANGED <<localConnectionString, validationError, connectionInfo,
                   generatedScript, isConnecting, extractionStatus, requests,
                   delivered, applied, edits>>
    /\ UNCHANGED <<callVars, serverVars>>

\* the response to request n reaches the client
Respond(n, ok, error) ==
    requests' = [requests EXCEPT ![n].state = "responded", ![n].ok = ok,
                                 ![n].error = error]

\* POST /api/extract-schema for request n: extractSchemaFromConnection is
\* called with the connectionString of the body, parses it and, for
\* postgresql, cockroachdb, mysql and mariadb, connects to the database
Handle ==
    \E n \in DOMAIN requests :
        /\ requests[n].state = "sent"
        /\ LET connectionString == requests[n].body.connectionString
               connInfo == ServerParseConnectionString(connectionString)
           IN  IF connectionString = <<>>
               THEN /\ Respond(n, FALSE, "Connection string is required")
                    /\ UNCHANGED serverVars
               ELSE /\ dispatched' =
                         Append(dispatched, [connectionString |-> connectionString])
                    /\ IF connInfo.isNull
                       THEN /\ Respond(n, FALSE, "Invalid connection string format (stack)")
                            /\ UNCHANGED dbConnections
                       ELSE IF connInfo.databaseType \in
                                 {"postgresql", "cockroachdb", "mysql", "mariadb"}
                       THEN /\ dbConnections' = dbConnections \cup
                                 {[host |-> connInfo.host, port |-> connInfo.port,
                                   database |-> connInfo.database,
                                   user |-> connInfo.user,
                                   password |-> connInfo.password]}
                            /\ \E ok \in BOOLEAN :
                                 Respond(n, ok, IF ok THEN ""
                                                ELSE "connect ECONNREFUSED (ECONNREFUSED)")
                       ELSE /\ Respond(n, FALSE, "SQL Server automatic extraction not yet implemented. Please use manual query method. (stack)")
                            /\ UNCHANGED dbConnections
        /\ UNCHANGED <<localConnectionString, showPassword, validationError,
                       connectionInfo, generatedScript, isConnecting,
                       extractionStatus, delivered, applied, edits>>
        /\ UNCHANGED callVars

\* fetch rejects for request n: the server cannot be reached
Unreachable ==
    \E n \in DOMAIN requests :
        /\ requests[n].state = "sent"
        /\ requests' = [requests EXCEPT ![n].state = "failed"]
        /\ UNCHANGED <<localConnectionString, showPassword, validationError,
                       connectionInfo, generatedScript, isConnecting,
                       extractionStatus, delivered, applied, edits>>
        /\ UNCHANGED <<callVars, serverVars>>

\* extractSchema goes on after its await for request n, with the
\* connectionInfo it closed over: the success path, the catch, the finally
Settle ==
    \E n \in DOMAIN requests :
        LET r == requests[n]
            typeError == r.state = "responded" /\ r.ok /\ r.connectionInfo.isNull
        IN  /\ r.state \in {"responded", "failed"}
            /\ requests' = [requests EXCEPT ![n].state = "done"]
            /\ applied' = n
            /\ delivered' = IF r.state = "responded" /\ r.ok
                            THEN Str(r.body.connectionString) ELSE delivered
            /\ extractionStatus' =
                   IF r.state = "responded" /\ r.ok /\ ~typeError
                   THEN "Schema extracted successfully!" ELSE ""
            /\ validationError' =
                   IF r.state = "failed" \/ typeError
                   THEN "Cannot connect to ChartDB backend server. Please make sure the server is running on http://localhost:3002"
                   ELSE IF r.ok THEN validationError ELSE r.error
            /\ generatedScript' =
                   IF r.connectionInfo.isNull THEN generatedScript
                   ELSE r.connectionInfo.databaseType
            /\ isConnecting' = FALSE
            /\ UNCHANGED <<localConnectionString, showPassword, connectionInfo,
                           edits>>
            /\ UNCHANGED <<callVars, serverVars>>

UiInit ==
    /\ text = <<>>
    /\ NoCall
    /\ Mounted
    /\ Listening

UiNext ==
    Paste \/ Type \/ Backspace \/ Toggle \/ Handle \/ Unreachable \/ Settle

UiSpec == UiInit /\ [][UiNext]_vars

----------------------------------------------------------------------------
(* Properties                                                              *)

\* C1: parseConnectionString returns null or a descriptor whose host is not
\* empty and whose databaseType is one of the dialect tags.
C1_HostNeverEmpty ==
    op = "parse" /\ ~parsed.isNull =>
        parsed.host # <<>> /\ parsed.databaseType \in DatabaseType

\* C2: for every dialect d the parser has a branch for (every one but
\* sqlite), the example of d parses, and parses as d.
C2_ExamplesParseAsTheirDialect ==
    \A d \in DatabaseType \ {"sqlite"} :
        op = "parse" /\ text = GetConnectionStringExample(d) =>
            ~parsed.isNull /\ parsed.databaseType = d

\* C3: clickhouse://[user:password@]host[:port]/database[?params] parses as
\* clickhouse, with the host, database, user and password of the text and
\* the port of the text, 8123 when it has none.
C3_ClickhouseBranchTaken ==
    \A cred \in {NoCredential, UserPassword}, h \in HostNames,
       port \in UrlPorts, db \in DatabaseNames, query \in UrlQueries :
        op = "parse" /\ text = UrlText(clickhouse, cred, h, port, db, query) =>
            /\ ~parsed.isNull
            /\ parsed.databaseType = "clickhouse"
            /\ parsed.host = h
            /\ parsed.database = db
            /\ parsed.user = cred.user
            /\ parsed.password = cred.password
            /\ parsed.port = IF port.given THEN port.n ELSE 8123

\* C4: scheme://[user[:password]@]host[:port]/database[?params] with one of
\* the schemes postgres, postgresql, mysql, mariadb, cockroachdb parses to
\* the host, database, user and password of the text, user and password
\* undefined when the text has none.
C4_UrlComponents ==
    \A sch \in UrlSchemes, cred \in Credentials, h \in HostNames,
       port \in UrlPorts, db \in DatabaseNames, query \in UrlQueries :
        op = "parse" /\ text = UrlText(sch, cred, h, port, db, query) =>
            /\ ~parsed.isNull
            /\ parsed.host = h
            /\ parsed.database = db
            /\ parsed.user = cred.user
            /\ parsed.password = cred.password

SpecifiedDefaultPort(databaseType) ==
    CASE databaseType \in {"postgresql", "cockroachdb"} -> 5432
      [] databaseType \in {"mysql", "mariadb"} -> 3306
      [] databaseType = "sqlserver" -> 1433
      [] databaseType = "oracle" -> 1521
      [] databaseType = "clickhouse" -> 8123
TextsWithoutPort ==
    {UrlText(sch, cred, h, NoPort, db, query) :
        sch \in Schemes, cred \in Credentials, h \in HostNames,
        db \in DatabaseNames, query \in UrlQueries}
    \cup KeyValueTextsOf(PlainServerValues)
    \cup {OracleText(cred, h, NoPort) :
            cred \in {<<>>, <<"s","c","o","t","t","/","p","w","1","@">>}, h \in HostNames}
TextsWithPort(n) ==
    {UrlText(sch, cred, h, port, db, query) :
        sch \in Schemes, cred \in Credentials, h \in HostNames,
        port \in {p \in UrlPorts : p.given /\ p.n = n},
        db \in DatabaseNames, query \in UrlQueries}
    \cup {OracleText(cred, h, port) :
            cred \in {<<>>, <<"s","c","o","t","t","/","p","w","1","@">>}, h \in HostNames,
            port \in {p \in OraclePorts : p.given /\ p.n = n}}
\* C6: in both parsers, the port of a descriptor is the default of its
\* dialect when the text carries no port, and the port of the text otherwise.
C6_DefaultPorts ==
    op \in {"parse", "serverParse"} /\ ~parsed.isNull =>
        /\ text \in TextsWithoutPort =>
              parsed.port = SpecifiedDefaultPort(parsed.databaseType)
        /\ \A n \in {5433, 1522} : text \in TextsWithPort(n) => parsed.port = n

\* C7: a text with a Server= segment parses as sqlserver, every one of the
\* segments Database=, User Id=, Password= of the text gives its field, and
\* the database is the empty string when the text has no Database= segment.
C7_KeyValueFields ==
    op = "parse" /\ text \in KeyValueTexts =>
        /\ ~parsed.isNull
        /\ parsed.databaseType = "sqlserver"
        /\ parsed.database =
              IF Includes(text, DatabaseSegment) THEN <<"a","p","p">> ELSE <<>>
        /\ parsed.user =
              IF Includes(text, UserIdSegment)
              THEN Str(<<"s","a">>) ELSE Undefined
        /\ parsed.password =
              IF Includes(text, PasswordSegment)
              THEN Str(<<"p","w","1">>) ELSE Undefined

\* C8: validateConnectionString reports the first failing check, in the
\* order empty, unparseable, host, database; it reports no error exactly
\* when the text parses to a descriptor with a host and a database.
C8_FirstFailingCheck ==
    op = "validate" =>
        LET p == ParseConnectionString(text)
            blank == \A n \in 1..Len(text) : text[n] \in WhiteSpace
        IN  /\ blank =>
                  validation.error = "Connection string cannot be empty"
            /\ ~blank /\ p.isNull =>
                  validation.error = "Invalid connection string format. Please check the format for your database type."
            /\ ~blank /\ ~p.isNull /\ p.host = <<>> =>
                  validation.error = "Host is required"
            /\ ~blank /\ ~p.isNull /\ p.host # <<>> /\ p.database = <<>> =>
                  validation.error = "Database name is required"
            /\ validation.isValid <=>
                  ~p.isNull /\ p.host # <<>> /\ p.database # <<>>
            /\ validation.isValid <=> validation.error = ""
C8_Witness ==
    /\ op = "validate"
    /\ ~ParseConnectionString(text).isNull
    /\ ParseConnectionString(text).host = <<>>
    /\ ParseConnectionString(text).database = <<>>
    /\ validation = [isValid |-> FALSE, error |-> "Host is required"]

\* C9: masking a masked text changes nothing.
C9_MaskIdempotent ==
    op = "remask" => remasked = masked

\* C10: no credential segment ://user:password@ and no Password= segment of
\* the text is left with its password in the masked text.
C10_NoPasswordLeft ==
    op = "mask" =>
        /\ ~Includes(masked, SchemeSep \o CredentialSegment)
        /\ ~Includes(masked, PasswordSegment)

\* C11: maskConnectionString leaves a text that holds no password as it is:
\* a URL-style text without credentials or with a user only, a key-value
\* text without a Password= segment, an Oracle-style text without
\* credentials.
TextsWithoutPassword ==
    {UrlText(sch, cred, h, port, db, query) :
        sch \in Schemes, cred \in {NoCredential, UserOnly}, h \in HostNames,
        port \in UrlPorts, db \in DatabaseNames \cup {<<>>},
        query \in UrlQueries}
    \cup {t \in KeyValueTexts : ~Includes(t, PasswordSegment)}
    \cup {OracleText(<<>>, h, port) : h \in HostNames, port \in OraclePorts}
C11_OnlyPasswordsChange ==
    op = "mask" /\ text \in TextsWithoutPassword => masked = text

\* C12: detectImportMethod answers connection only for a text whose trimmed
\* form parseConnectionString parses; a text with the shape of a connection
\* string that does not parse is not connection, and is null when it has no
\* DBML pattern, no DDL keyword and no outer braces or brackets.
C12_ConnectionOnlyWhenParsed ==
    op = "detect" =>
        LET trimmed == Trim(text)
            shape == HasConnectionStringPattern(trimmed)
            unparsed == ParseConnectionString(trimmed).isNull
        IN  /\ detected = "connection" => shape /\ ~unparsed
            /\ shape /\ unparsed => detected # "connection"
            /\ /\ shape /\ unparsed
               /\ ~HasDBMLPatterns(text)
               /\ ~HasDDLKeywords(ToUpperCase(text))
               /\ ~LooksLikeJson(trimmed)
               => detected = "null"
C12_Witness ==
    /\ op = "detect"
    /\ text = postgresql \o SchemeSep
    /\ HasConnectionStringPattern(Trim(text))
    /\ ParseConnectionString(Trim(text)).isNull
    /\ detected = "null"

\* C13: the first rule that matches decides the tag, in the order blank,
\* connection string, DBML pattern, DDL keyword, outer braces or brackets;
\* a text with [pk] and CREATE TABLE that is no connection string is dbml,
\* and CREATE TABLE in brackets is ddl.
C13_FirstMatchingRule ==
    op = "detect" =>
        LET trimmed == Trim(text)
            blank == \A n \in 1..Len(text) : text[n] \in WhiteSpace
            connection == /\ HasConnectionStringPattern(trimmed)
                          /\ ~ParseConnectionString(trimmed).isNull
            dbml == HasDBMLPatterns(text)
            ddl == HasDDLKeywords(ToUpperCase(text))
            json == LooksLikeJson(trimmed)
        IN  /\ blank => detected = "null"
            /\ ~blank /\ connection => detected = "connection"
            /\ ~blank /\ ~connection /\ dbml => detected = "dbml"
            /\ ~blank /\ ~connection /\ ~dbml /\ ddl => detected = "ddl"
            /\ ~blank /\ ~connection /\ ~dbml /\ ~ddl /\ json =>
                  detected = "query"
            /\ ~blank /\ ~connection /\ ~dbml /\ ~ddl /\ ~json =>
                  detected = "null"
            /\ /\ Includes(text, <<"[","p","k","]">>)
               /\ Includes(text, <<"C","R","E","A","T","E"," ","T","A","B","L","E">>)
               /\ ~connection
               => detected = "dbml"
            /\ text = <<"[">> \o <<"C","R","E","A","T","E"," ","T","A","B","L","E"," ","t">> \o <<"]">> => detected = "ddl"
C13_Witness ==
    /\ op = "detect"
    /\ text = <<"[">> \o <<"C","R","E","A","T","E"," ","T","A","B","L","E"," ","t">> \o <<" ">> \o <<"[","p","k","]">> \o <<"]">>
    /\ HasDDLKeywords(ToUpperCase(text))
    /\ LooksLikeJson(Trim(text))
    /\ detected = "dbml"

\* C14: each function of the core returns a value of its result type for
\* every text: parseConnectionString null or a ConnectionStringInfo,
\* validateConnectionString a verdict with one of its messages,
\* maskConnectionString a string, detectImportMethod one of its four tags or
\* null, and the same one when it is called again.
ValidationErrors ==
    {"Connection string cannot be empty",
     "Invalid connection string format. Please check the format for your database type.",
     "Host is required", "Database name is required"}
IsString(s) == DOMAIN s = 1..Len(s)
IsOptionalString(x) == x.def \in BOOLEAN /\ IsString(x.v)
IsConnectionStringInfo(p) ==
    /\ IsString(p.host)
    /\ p.port \in Int
    /\ IsString(p.database)
    /\ IsOptionalString(p.user)
    /\ IsOptionalString(p.password)
    /\ IsOptionalString(p.schema)
    /\ p.ssl \in {"true", "false", "undefined"}
    /\ p.databaseType \in DatabaseType
SpecifiedSsl(query) ==
    IF query \in {<<"?","s","s","l","=","t","r","u","e">>,
                  <<"?","s","s","l","m","o","d","e","=","r","e","q","u","i","r","e">>}
    THEN "true" ELSE "false"
C15_SslBoolean ==
    op = "parse" /\ ~parsed.isNull =>
        /\ parsed.ssl \in {"true", "false"}
        /\ \A sch \in Schemes, cred \in {NoCredential, UserPassword},
              h \in HostNames, port \in UrlPorts, db \in DatabaseNames,
              query \in UrlQueries :
               text = UrlText(sch, cred, h, port, db, query) =>
                   parsed.ssl = SpecifiedSsl(query)
        /\ text \in KeyValueTexts \cup OracleTexts => parsed.ssl = "false"

\* C16: the port of a descriptor is a positive integer.
C16_PortPositive ==
    op = "parse" /\ ~parsed.isNull => parsed.port \in Nat \ {0}

\* C17: no component opens a connection to the database.
C17_NoDatabaseConnection ==
    dbConnections = {}

\* C18: no request to the extraction endpoint and no call of its dispatcher
\* carries a connection string.
C18_DescriptorOnly ==
    /\ \A n \in DOMAIN requests :
           "connectionString" \notin DOMAIN requests[n].body
    /\ \A k \in DOMAIN dispatched :
           "connectionString" \notin DOMAIN dispatched[k]

\* C19: localConnectionString never holds the mask token (the user pastes
\* and types none).
C19_StoredPasswordIsEntered ==
    ~Includes(localConnectionString, MaskToken)

\* C20: isConnecting is true while a request is in flight, and no outcome is
\* applied after that of a later request.
C20_LatestRequestWins ==
    /\ (\E n \in DOMAIN requests : requests[n].state # "done") => isConnecting
    /\ \A n \in DOMAIN requests : requests[n].state = "done" => n <= applied

====
